---- MODULE Spec2Model ----
(***************************************************************************)
(* A model of the per-client ledger of davegarred/transactions.            *)
(*                                                                         *)
(* Client (src/src/client.rs) keeps two HashMaps from transaction id to    *)
(* the stored Deposit/Withdrawal details, `transactions` (active) and      *)
(* `disputed_transactions` (held), and a `locked` flag.  Its single        *)
(* mutation entry point is process_transaction; available(), hold() and    *)
(* total() are sums over the maps converted from Amount (a scaled i64) to  *)
(* f64.                                                                    *)
(*                                                                         *)
(* An f64 is modelled as a fixed-point number with one decimal digit more  *)
(* than an Amount stores (units of 1/F64_RESOLUTION), so that the          *)
(* conversions Amount -> f64 -> Amount are computed and not assumed.  The   *)
(* amounts of the model are far from the range where an i64 sum overflows  *)
(* or where an f64 cannot tell two neighbouring Amounts apart.             *)
(***************************************************************************)
EXTENDS Integers, FiniteSets, Sequences, TLC

\* Transaction ids are 1..MaxId (TransactionId = u32 in src/src/main.rs).
MaxId == 2

\* Transaction ids of a run in which no id is used twice: 1..MaxPlainId.
MaxPlainId == 3

\* The f64 amounts converted range over -MaxF64..MaxF64 units of
\* 1/F64_RESOLUTION (and two values of the repository's tests).
MaxF64 == 25

\* Amounts (scaled integers) range over -1..MaxAmount: the client accepts
\* zero and negative amounts, Amount::from never rejects an input.
MaxAmount == 2

\* amount.rs: const AMOUNT_STORAGE_PRECISION: f64 = 10_000.0;
AMOUNT_STORAGE_PRECISION == 10000

\* Units per 1.0 of the fixed-point stand-in for f64.
F64_RESOLUTION == 10 * AMOUNT_STORAGE_PRECISION

\* client.rs tests: const TEST_CLIENT_ID: ClientId = 1337;
TEST_CLIENT_ID == 1337

TransactionIds == 1..MaxId

Amounts == (0 - 1)..MaxAmount

VARIABLES
    client,   \* the Client: [id, transactions, disputed_transactions, locked]
    last,     \* the Transaction handed to the latest process_transaction call
    pre,      \* the Client as it was before that call
    used,     \* ids carried so far by a Deposit or a Withdrawal
    reused,   \* TRUE once a Deposit or Withdrawal carried an id of `used`
    ledger,   \* amounts deposited and withdrawn so far (kept for plain runs)
    conv,     \* one conversion of a (type, amount) pair of a csv record
    clients,  \* Bank.clients: HashMap<ClientId, Client>
    file,     \* the items rdr.records() has yielded so far
    handed,   \* the Transactions handed to Bank::process_transaction so far
    result,   \* what process_file returned
    pc,       \* where main is
    exit_code,\* the exit code of the process once it has ended
    stdout    \* the lines written to stdout

\* The variables of one Client and of the calls made on it.
clientvars == <<client, last, pre, used, reused>>

\* The variables of a run of main on one batch file.
mainvars == <<clients, file, handed, result, pc, exit_code, stdout>>

vars == <<clientvars, ledger, conv, mainvars>>

----------------------------------------------------------------------------
(* amount.rs *)

\* f64::round: to the nearest integer, ties away from zero, of num / den.
RoundHalfAway(num, den) ==
    IF num >= 0 THEN (2 * num + den) \div (2 * den)
    ELSE 0 - ((2 * (0 - num) + den) \div (2 * den))

\* Variant of F64ToAmount: the product is cast without being rounded (`as
\* i64` truncates toward zero).
F64ToAmount_NotRounded(value) ==
    IF value >= 0
    THEN (value * AMOUNT_STORAGE_PRECISION) \div F64_RESOLUTION
    ELSE 0 - (((0 - value) * AMOUNT_STORAGE_PRECISION) \div F64_RESOLUTION)

\* impl From<f64> for Amount: (value * AMOUNT_STORAGE_PRECISION).round() as i64
F64ToAmount(value) ==
    RoundHalfAway(value * AMOUNT_STORAGE_PRECISION, F64_RESOLUTION)

\* impl From<Amount> for f64: value.0 as f64 / AMOUNT_STORAGE_PRECISION
AmountToF64(value) ==
    (value * F64_RESOLUTION) \div AMOUNT_STORAGE_PRECISION

\* Amount::default()
AmountDefault == 0

\* impl Add<Amount> for Amount
AmountAdd(lhs, rhs) == lhs + rhs

\* impl Sub<Amount> for Amount
AmountSub(lhs, rhs) == lhs - rhs

----------------------------------------------------------------------------
(* transaction.rs.  The fields of a record are written in the order TLC    *)
(* sorts them in (that of their first appearance in the module).           *)

Deposit_(amount) == [amount |-> amount, kind |-> "Deposit"]
Withdrawal_(amount) == [amount |-> amount, kind |-> "Withdrawal"]
Dispute_ == [kind |-> "Dispute"]
Resolve_ == [kind |-> "Resolve"]
Chargeback_ == [kind |-> "Chargeback"]

TransactionDetails ==
    {Deposit_(a) : a \in Amounts} \cup {Withdrawal_(a) : a \in Amounts}
        \cup {Dispute_, Resolve_, Chargeback_}

Transaction(details, client_id, id) ==
    [client |-> client_id, transaction_details |-> details, transaction_id |-> id]

NoTransaction == [client |-> 0, transaction_details |-> [kind |-> "None"],
                  transaction_id |-> 0]

\* Option<f64>: None is the empty tuple, Some(x) the tuple of x.
None_ == << >>
Some(x) == <<x>>
IsSome(option) == option # None_
Unwrap(option) == option[1]

\* Result<T, E>
Ok(x) == [tag |-> "Ok", get |-> x]
Err(x) == [tag |-> "Err", get |-> x]

\* A &str is the tuple of its ASCII codes.
STR_DEPOSIT == <<100, 101, 112, 111, 115, 105, 116>>
STR_WITHDRAWAL == <<119, 105, 116, 104, 100, 114, 97, 119, 97, 108>>
STR_DISPUTE == <<100, 105, 115, 112, 117, 116, 101>>
STR_RESOLVE == <<114, 101, 115, 111, 108, 118, 101>>
STR_CHARGEBACK == <<99, 104, 97, 114, 103, 101, 98, 97, 99, 107>>

\* str::to_ascii_lowercase: 'A'..'Z' become 'a'..'z', the rest is kept.
ToAsciiLowercase(str) ==
    [i \in 1..Len(str) |-> IF str[i] \in 65..90 THEN str[i] + 32 ELSE str[i]]

\* Variant of TryFromCsvType: the type is matched as it was written.
TryFromCsvType_CaseSensitive(transaction_type, amount) ==
    CASE transaction_type = STR_DEPOSIT /\ IsSome(amount)
            -> Ok(Deposit_(F64ToAmount(Unwrap(amount))))
      [] transaction_type = STR_WITHDRAWAL /\ IsSome(amount)
            -> Ok(Withdrawal_(F64ToAmount(Unwrap(amount))))
      [] transaction_type = STR_DISPUTE /\ ~IsSome(amount) -> Ok(Dispute_)
      [] transaction_type = STR_RESOLVE /\ ~IsSome(amount) -> Ok(Resolve_)
      [] transaction_type = STR_CHARGEBACK /\ ~IsSome(amount) -> Ok(Chargeback_)
      [] OTHER -> Err(<<transaction_type, amount>>)

\* impl TryFrom<(&str, Option<f64>)> for TransactionType
TryFromCsvType(transaction_type, amount) ==
    LET lower == ToAsciiLowercase(transaction_type)
    IN CASE lower = STR_DEPOSIT /\ IsSome(amount)
               -> Ok(Deposit_(F64ToAmount(Unwrap(amount))))
         [] lower = STR_WITHDRAWAL /\ IsSome(amount)
               -> Ok(Withdrawal_(F64ToAmount(Unwrap(amount))))
         [] lower = STR_DISPUTE /\ ~IsSome(amount) -> Ok(Dispute_)
         [] lower = STR_RESOLVE /\ ~IsSome(amount) -> Ok(Resolve_)
         [] lower = STR_CHARGEBACK /\ ~IsSome(amount) -> Ok(Chargeback_)
         [] OTHER -> Err(<<transaction_type, amount>>)

----------------------------------------------------------------------------
(* std::collections::HashMap, as a function on its key set *)

HashMapEmpty == << >>

HashMapInsert(map, key, value) ==
    [k \in (DOMAIN map) \cup {key} |-> IF k = key THEN value ELSE map[k]]

HashMapRemove(map, key) ==
    [k \in (DOMAIN map) \ {key} |-> map[k]]

----------------------------------------------------------------------------
(* client.rs *)

Client_new(id) ==
    [id |-> id,
     transactions |-> HashMapEmpty,
     disputed_transactions |-> HashMapEmpty,
     locked |-> FALSE]

\* Variant of SumStep: a withdrawal is added like a deposit.
SumStep_WithdrawalAdds(sum, transaction) ==
    CASE transaction.kind = "Deposit" -> AmountAdd(sum, transaction.amount)
      [] transaction.kind = "Withdrawal" -> AmountAdd(sum, transaction.amount)
      [] OTHER -> sum

\* One turn of the loop of sum_transactions.
SumStep(sum, transaction) ==
    CASE transaction.kind = "Deposit" -> AmountAdd(sum, transaction.amount)
      [] transaction.kind = "Withdrawal" -> AmountSub(sum, transaction.amount)
      [] OTHER -> sum

RECURSIVE SumLoop(_, _, _)
SumLoop(map, keys, sum) ==
    IF keys = {} THEN sum
    ELSE LET k == CHOOSE x \in keys : TRUE
         IN SumLoop(map, keys \ {k}, SumStep(sum, map[k]))

sum_transactions(map) == SumLoop(map, DOMAIN map, AmountDefault)

available(c) == AmountToF64(sum_transactions(c.transactions))

hold(c) == AmountToF64(sum_transactions(c.disputed_transactions))

total(c) ==
    AmountToF64(AmountAdd(sum_transactions(c.transactions),
                          sum_transactions(c.disputed_transactions)))

locked(c) == c.locked

\* Variant of ProcessDeposit: the entry is inserted into the disputed map.
ProcessDeposit_IntoDisputed(c, t) ==
    [c EXCEPT !.disputed_transactions =
        HashMapInsert(@, t.transaction_id, t.transaction_details)]

ProcessDeposit(c, t) ==
    [c EXCEPT !.transactions =
        HashMapInsert(@, t.transaction_id, t.transaction_details)]

\* Variant of ProcessWithdrawal: the balance is not compared with the amount.
ProcessWithdrawal_NoFundsCheck(c, t) ==
    [c EXCEPT !.transactions =
        HashMapInsert(@, t.transaction_id, t.transaction_details)]

ProcessWithdrawal(c, t) ==
    LET current_balance == available(c)
        tx_amount == AmountToF64(t.transaction_details.amount)
    IN IF current_balance < tx_amount
       THEN c
       ELSE [c EXCEPT !.transactions =
                HashMapInsert(@, t.transaction_id, t.transaction_details)]

\* Variant of ProcessDispute: the removed entry is not inserted into the
\* disputed map.
ProcessDispute_DropsEntry(c, t) ==
    [c EXCEPT !.transactions = HashMapRemove(@, t.transaction_id)]

\* Variant of ProcessDispute: the entry is looked up and copied, not removed.
ProcessDispute_KeepsActive(c, t) ==
    IF t.transaction_id \in DOMAIN c.transactions
    THEN [c EXCEPT !.disputed_transactions =
            HashMapInsert(@, t.transaction_id, c.transactions[t.transaction_id])]
    ELSE c

ProcessDispute(c, t) ==
    IF t.transaction_id \in DOMAIN c.transactions
    THEN [c EXCEPT
            !.transactions = HashMapRemove(@, t.transaction_id),
            !.disputed_transactions =
                HashMapInsert(@, t.transaction_id, c.transactions[t.transaction_id])]
    ELSE c

\* Variant of ProcessResolve: the removed entry is not put back.
ProcessResolve_Forgets(c, t) ==
    [c EXCEPT !.disputed_transactions = HashMapRemove(@, t.transaction_id)]

\* Variant of ProcessResolve: the id is looked up in the active map, as the
\* Dispute arm does.
ProcessResolve_LooksInActive(c, t) ==
    IF t.transaction_id \in DOMAIN c.transactions
    THEN [c EXCEPT
            !.transactions = HashMapRemove(@, t.transaction_id),
            !.disputed_transactions =
                HashMapInsert(@, t.transaction_id, c.transactions[t.transaction_id])]
    ELSE c

ProcessResolve(c, t) ==
    IF t.transaction_id \in DOMAIN c.disputed_transactions
    THEN [c EXCEPT
            !.disputed_transactions = HashMapRemove(@, t.transaction_id),
            !.transactions =
                HashMapInsert(@, t.transaction_id,
                              c.disputed_transactions[t.transaction_id])]
    ELSE c

\* Variant of ProcessChargeback: locked is set whether or not an entry was
\* removed.
ProcessChargeback_AlwaysLocks(c, t) ==
    [c EXCEPT
        !.disputed_transactions = HashMapRemove(@, t.transaction_id),
        !.locked = TRUE]

\* Variant of ProcessChargeback: the entry is removed and locked is not set.
ProcessChargeback_NeverLocks(c, t) ==
    [c EXCEPT !.disputed_transactions = HashMapRemove(@, t.transaction_id)]

ProcessChargeback(c, t) ==
    IF t.transaction_id \in DOMAIN c.disputed_transactions
    THEN [c EXCEPT
            !.disputed_transactions = HashMapRemove(@, t.transaction_id),
            !.locked = TRUE]
    ELSE c

\* The match of process_transaction, reached when the client is not locked.
ProcessMatch(c, t) ==
    CASE t.transaction_details.kind = "Deposit" -> ProcessDeposit(c, t)
      [] t.transaction_details.kind = "Withdrawal" -> ProcessWithdrawal(c, t)
      [] t.transaction_details.kind = "Dispute" -> ProcessDispute(c, t)
      [] t.transaction_details.kind = "Resolve" -> ProcessResolve(c, t)
      [] t.transaction_details.kind = "Chargeback" -> ProcessChargeback(c, t)

\* Variant of process_transaction: no early return for a locked client.
process_transaction_IgnoresLock(c, t) == ProcessMatch(c, t)

process_transaction(c, t) ==
    IF c.locked THEN c ELSE ProcessMatch(c, t)

----------------------------------------------------------------------------
(* main.rs before main has run *)

NoResult == [tag |-> "None", get |-> << >>]

NoExit == 0 - 1

MainNotStarted ==
    /\ clients = HashMapEmpty
    /\ file = << >>
    /\ handed = << >>
    /\ result = NoResult
    /\ pc = "not_started"
    /\ exit_code = NoExit
    /\ stdout = << >>

----------------------------------------------------------------------------
(* The conversions of one csv record's type and amount *)

\* The written forms of a keyword: as is, in capitals, with a capital first.
ToAsciiUppercase(str) ==
    [i \in 1..Len(str) |-> IF str[i] \in 97..122 THEN str[i] - 32 ELSE str[i]]

Capitalised(str) ==
    [i \in 1..Len(str) |->
        IF i = 1 /\ str[i] \in 97..122 THEN str[i] - 32 ELSE str[i]]

Keywords ==
    {STR_DEPOSIT, STR_WITHDRAWAL, STR_DISPUTE, STR_RESOLVE, STR_CHARGEBACK}

\* "something_else" (transaction.rs tests), "deposits", "resolv", "".
OtherTypes ==
    {<<115, 111, 109, 101, 116, 104, 105, 110, 103, 95, 101, 108, 115, 101>>,
     <<100, 101, 112, 111, 115, 105, 116, 115>>,
     <<114, 101, 115, 111, 108, 118>>,
     << >>}

TypeInputs ==
    Keywords \cup {ToAsciiUppercase(k) : k \in Keywords}
        \cup {Capitalised(k) : k \in Keywords} \cup OtherTypes

\* 0.52413 and -0.52408: the fractions of amount.rs's four-places test.
TestF64s == {52413, 0 - 52408}

F64Inputs == ((0 - MaxF64)..MaxF64) \cup TestF64s

AmountInputs == {None_} \cup {Some(x) : x \in F64Inputs}

NoConversion ==
    [pc |-> "none", transaction_type |-> << >>, given |-> None_,
     parsed |-> Err(<< >>), back |-> 0, again |-> 0]

InitConvert ==
    /\ client = Client_new(TEST_CLIENT_ID)
    /\ last = NoTransaction
    /\ pre = Client_new(TEST_CLIENT_ID)
    /\ used = {}
    /\ reused = FALSE
    /\ ledger = [deposited |-> 0, withdrawn |-> 0]
    /\ MainNotStarted
    /\ \E t \in TypeInputs, a \in AmountInputs :
          conv = [NoConversion EXCEPT
                    !.pc = "try_from", !.transaction_type = t, !.given = a]

\* TransactionType::try_from((transaction_type, amount))
TryFrom ==
    /\ conv.pc = "try_from"
    /\ conv' = [conv EXCEPT
                  !.pc = "parsed",
                  !.parsed = TryFromCsvType(conv.transaction_type, conv.given)]
    /\ UNCHANGED <<clientvars, ledger, mainvars>>

\* f64::from(amount) on the Amount of a parsed Deposit or Withdrawal, and
\* Amount::from of that f64.
ReadBack ==
    /\ conv.pc = "parsed"
    /\ conv.parsed.tag = "Ok"
    /\ conv.parsed.get.kind \in {"Deposit", "Withdrawal"}
    /\ LET value == AmountToF64(conv.parsed.get.amount)
       IN conv' = [conv EXCEPT
                     !.pc = "read_back",
                     !.back = value,
                     !.again = F64ToAmount(value)]
    /\ UNCHANGED <<clientvars, ledger, mainvars>>

NextConvert == TryFrom \/ ReadBack

SpecConvert == InitConvert /\ [][NextConvert]_vars

----------------------------------------------------------------------------
(* The client under a stream of process_transaction calls *)

Init ==
    /\ client = Client_new(TEST_CLIENT_ID)
    /\ last = NoTransaction
    /\ pre = Client_new(TEST_CLIENT_ID)
    /\ used = {}
    /\ reused = FALSE
    /\ ledger = [deposited |-> 0, withdrawn |-> 0]
    /\ conv = NoConversion
    /\ MainNotStarted

IsStored(details) == details.kind \in {"Deposit", "Withdrawal"}

\* What the call of process_transaction(t) leaves in the record of the run.
Observed(t) ==
    /\ last' = t
    /\ pre' = client
    /\ used' = IF IsStored(t.transaction_details)
               THEN used \cup {t.transaction_id} ELSE used
    /\ reused' = (reused \/ (IsStored(t.transaction_details)
                                /\ t.transaction_id \in used))

\* client.process_transaction(Deposit(a) with transaction id `id`)
Deposit ==
    \E id \in TransactionIds, a \in Amounts :
        LET t == Transaction(Deposit_(a), TEST_CLIENT_ID, id)
        IN /\ client' = process_transaction(client, t)
           /\ Observed(t)
           /\ UNCHANGED <<ledger, conv, mainvars>>

\* client.process_transaction(Withdrawal(a) with transaction id `id`)
Withdrawal ==
    \E id \in TransactionIds, a \in Amounts :
        LET t == Transaction(Withdrawal_(a), TEST_CLIENT_ID, id)
        IN /\ client' = process_transaction(client, t)
           /\ Observed(t)
           /\ UNCHANGED <<ledger, conv, mainvars>>

\* client.process_transaction(Dispute of transaction id `id`)
Dispute ==
    \E id \in TransactionIds :
        LET t == Transaction(Dispute_, TEST_CLIENT_ID, id)
        IN /\ client' = process_transaction(client, t)
           /\ Observed(t)
           /\ UNCHANGED <<ledger, conv, mainvars>>

\* client.process_transaction(Resolve of transaction id `id`)
Resolve ==
    \E id \in TransactionIds :
        LET t == Transaction(Resolve_, TEST_CLIENT_ID, id)
        IN /\ client' = process_transaction(client, t)
           /\ Observed(t)
           /\ UNCHANGED <<ledger, conv, mainvars>>

\* client.process_transaction(Chargeback of transaction id `id`)
Chargeback ==
    \E id \in TransactionIds :
        LET t == Transaction(Chargeback_, TEST_CLIENT_ID, id)
        IN /\ client' = process_transaction(client, t)
           /\ Observed(t)
           /\ UNCHANGED <<ledger, conv, mainvars>>

Next == Deposit \/ Withdrawal \/ Dispute \/ Resolve \/ Chargeback

Spec == Init /\ [][Next]_vars

\* A client that is only ever handed Deposit transactions.
SpecDeposits == Init /\ [][Deposit]_vars

PlainIds == 1..MaxPlainId

PositiveAmounts == 1..MaxAmount

\* A Deposit of a positive amount under an id not used before.
PlainDeposit ==
    \E id \in PlainIds \ used, a \in PositiveAmounts :
        LET t == Transaction(Deposit_(a), TEST_CLIENT_ID, id)
        IN /\ client' = process_transaction(client, t)
           /\ Observed(t)
           /\ ledger' = [ledger EXCEPT !.deposited = @ + a]
           /\ UNCHANGED <<conv, mainvars>>

\* A Withdrawal of a positive amount under an id not used before; it counts
\* as withdrawn when the call stored it.
PlainWithdrawal ==
    \E id \in PlainIds \ used, a \in PositiveAmounts :
        LET t == Transaction(Withdrawal_(a), TEST_CLIENT_ID, id)
            after == process_transaction(client, t)
        IN /\ client' = after
           /\ Observed(t)
           /\ ledger' = IF id \in DOMAIN after.transactions
                         THEN [ledger EXCEPT !.withdrawn = @ + a]
                         ELSE ledger
           /\ UNCHANGED <<conv, mainvars>>

NextPlain == PlainDeposit \/ PlainWithdrawal

\* A fresh client handed Deposits and Withdrawals only, every amount
\* positive and no transaction id used twice.
SpecPlain == Init /\ [][NextPlain]_vars

----------------------------------------------------------------------------
(* bank.rs and main.rs: main run on one batch file *)

MaxClient == 2

MaxTx == 2

MaxRows == 4

MaxRowAmount == 1

ClientIds == 1..MaxClient

RowIds == 1..MaxTx

\* What rdr.records() yields: a StringRecord <<"record", type, client, tx,
\* amount>> whose fields deserialize, a record that does not deserialize
\* into a CsvDeserializedTransaction, or the reader's own error.
StringRecord(transaction_type, client_id, id, amount) ==
    <<"record", transaction_type, client_id, id, amount>>

Undeserializable == <<"undeserializable", << >>, 0, 0, None_>>

ReaderError == <<"reader_error", << >>, 0, 0, None_>>

STR_SOMETHING_ELSE ==
    <<115, 111, 109, 101, 116, 104, 105, 110, 103, 95, 101, 108, 115, 101>>

RowTypes == Keywords \cup {STR_SOMETHING_ELSE}

\* The amount column: empty, or 0.0001, 0.0002, ...
RowAmounts ==
    {None_} \cup
    {Some(a * (F64_RESOLUTION \div AMOUNT_STORAGE_PRECISION)) :
        a \in 1..MaxRowAmount}

RecordItems ==
    {StringRecord(ty, c, id, a) :
        ty \in RowTypes, c \in ClientIds, id \in RowIds, a \in RowAmounts}
        \cup {Undeserializable, ReaderError}

\* csv::Error::to_string()
CsvErrorMessage == << >>

\* impl TryFrom<StringRecord> for Transaction
TryFromStringRecord(value) ==
    IF value[1] = "undeserializable" THEN Err(CsvErrorMessage)
    ELSE LET transaction_type == TryFromCsvType(value[2], value[5])
         IN IF transaction_type.tag = "Err" THEN transaction_type
            ELSE Ok(Transaction(transaction_type.get, value[3], value[4]))

\* error.rs: enum TransactionError
FileUnreadable == <<"FileUnreadable", 0, << >> >>
FileTransaction(line, msg) == <<"FileTransaction", line, msg>>

\* Variant of RecordOutcome: the error carries the row number counted from 1.
RecordOutcome_CountsFromOne(line, item) ==
    LET transaction == IF item[1] = "reader_error" THEN Err(CsvErrorMessage)
                       ELSE TryFromStringRecord(item)
    IN IF transaction.tag = "Err"
       THEN Err(FileTransaction(line + 1, transaction.get))
       ELSE transaction

\* The two matches of process_file's loop body on item number `line`: the
\* Transaction to process, or the error process_file returns.
RecordOutcome(line, item) ==
    LET transaction == IF item[1] = "reader_error" THEN Err(CsvErrorMessage)
                       ELSE TryFromStringRecord(item)
    IN IF transaction.tag = "Err"
       THEN Err(FileTransaction(line, transaction.get))
       ELSE transaction

\* Variant of Bank_process_transaction: a new Client is inserted on every
\* call, also over one the map already holds.
Bank_process_transaction_AlwaysNew(bank, transaction) ==
    HashMapInsert(bank, transaction.client,
                  process_transaction(Client_new(transaction.client),
                                      transaction))

\* Variant of Bank_process_transaction: the transaction is processed by
\* every Client of the map.
Bank_process_transaction_EveryClient(bank, transaction) ==
    LET with == IF transaction.client \in DOMAIN bank THEN bank
                ELSE HashMapInsert(bank, transaction.client,
                                   Client_new(transaction.client))
    IN [k \in DOMAIN with |-> process_transaction(with[k], transaction)]

\* Bank::process_transaction on the map `bank`
Bank_process_transaction(bank, transaction) ==
    LET with == IF transaction.client \in DOMAIN bank THEN bank
                ELSE HashMapInsert(bank, transaction.client,
                                   Client_new(transaction.client))
    IN [with EXCEPT ![transaction.client] =
                        process_transaction(@, transaction)]

Client_id(c) == c.id

\* One line of write_client_status_csv_stdout
StatusLine(c) == <<Client_id(c), available(c), hold(c), total(c), locked(c)>>

STATUS_HEADER == <<"client", "available", "held", "total", "locked">>

\* The orders HashMap::values() may yield the keys of `bank` in.
ValuesOrders(bank) ==
    {order \in [1..Cardinality(DOMAIN bank) -> DOMAIN bank] :
        \A i, j \in DOMAIN order : order[i] = order[j] => i = j}

InitMain ==
    /\ client = Client_new(TEST_CLIENT_ID)
    /\ last = NoTransaction
    /\ pre = Client_new(TEST_CLIENT_ID)
    /\ used = {}
    /\ reused = FALSE
    /\ ledger = [deposited |-> 0, withdrawn |-> 0]
    /\ conv = NoConversion
    /\ clients = HashMapEmpty
    /\ file = << >>
    /\ handed = << >>
    /\ result = NoResult
    /\ pc = "main"
    /\ exit_code = NoExit
    /\ stdout = << >>

\* main: args.len() != 2
Usage ==
    /\ pc = "main"
    /\ stdout' = <<"Usage">>
    /\ exit_code' = 0
    /\ pc' = "exited"
    /\ UNCHANGED <<clients, file, handed, result, clientvars, ledger, conv>>

\* process_file: File::open fails
OpenFails ==
    /\ pc = "main"
    /\ result' = Err(FileUnreadable)
    /\ pc' = "returned"
    /\ UNCHANGED <<clients, file, handed, exit_code, stdout,
                   clientvars, ledger, conv>>

\* process_file: File::open succeeds and the reader is built
Open ==
    /\ pc = "main"
    /\ pc' = "records"
    /\ UNCHANGED <<clients, file, handed, result, exit_code, stdout,
                   clientvars, ledger, conv>>

\* process_file: one turn of the loop over rdr.records().enumerate()
ReadRecord ==
    /\ pc = "records"
    /\ Len(file) < MaxRows
    /\ \E item \in RecordItems :
          LET line == Len(file)
              outcome == RecordOutcome(line, item)
          IN /\ file' = Append(file, item)
             /\ IF outcome.tag = "Err"
                THEN /\ result' = outcome
                     /\ pc' = "returned"
                     /\ UNCHANGED <<clients, handed>>
                ELSE /\ clients' = Bank_process_transaction(clients, outcome.get)
                     /\ handed' = Append(handed, outcome.get)
                     /\ UNCHANGED <<result, pc>>
    /\ UNCHANGED <<exit_code, stdout, clientvars, ledger, conv>>

\* process_file: rdr.records() is exhausted, Ok(())
EndOfFile ==
    /\ pc = "records"
    /\ result' = Ok(<< >>)
    /\ pc' = "returned"
    /\ UNCHANGED <<clients, file, handed, exit_code, stdout,
                   clientvars, ledger, conv>>

\* main: process_file returned Err: eprintln!, exit(1)
ExitWithError ==
    /\ pc = "returned"
    /\ result.tag = "Err"
    /\ exit_code' = 1
    /\ pc' = "exited"
    /\ UNCHANGED <<clients, file, handed, result, stdout,
                   clientvars, ledger, conv>>

\* main: process_file returned Ok: bank.write_client_status_csv_stdout()
WriteStatus ==
    /\ pc = "returned"
    /\ result.tag = "Ok"
    /\ \E order \in ValuesOrders(clients) :
          stdout' = <<STATUS_HEADER>> \o
                    [i \in DOMAIN order |-> StatusLine(clients[order[i]])]
    /\ exit_code' = 0
    /\ pc' = "exited"
    /\ UNCHANGED <<clients, file, handed, result, clientvars, ledger, conv>>

NextMain ==
    \/ Usage
    \/ OpenFails
    \/ Open
    \/ ReadRecord
    \/ EndOfFile
    \/ ExitWithError
    \/ WriteStatus

SpecMain == InitMain /\ [][NextMain]_vars

----------------------------------------------------------------------------
(* Vocabulary of the properties *)

Active(c) == DOMAIN c.transactions

Held(c) == DOMAIN c.disputed_transactions

LastKind == last.transaction_details.kind

LastId == last.transaction_id

\* Deposits count positive, withdrawals negative.
SignedAmount(details) ==
    IF details.kind = "Deposit" THEN details.amount ELSE 0 - details.amount

\* The queries, read back on the scale of the stored integers.
AvailableAmount(c) == F64ToAmount(available(c))

HoldAmount(c) == F64ToAmount(hold(c))

TotalAmount(c) == F64ToAmount(total(c))

SameBalances(c, d) ==
    /\ available(c) = available(d)
    /\ hold(c) = hold(d)
    /\ total(c) = total(d)

\* Nothing a caller can observe differs between c and d.
SameClient(c, d) ==
    /\ c.transactions = d.transactions
    /\ c.disputed_transactions = d.disputed_transactions
    /\ locked(c) = locked(d)
    /\ SameBalances(c, d)

----------------------------------------------------------------------------
\* C1: lock is terminal.  A call made on a locked client, of any kind and
\* with any id or amount, leaves both maps, available(), hold(), total() and
\* locked() as they were; in particular locked() stays true.
C1_LockIsTerminal ==
    locked(pre) => (locked(client) /\ SameClient(client, pre))

\* A call of each storing kind has been made on a locked client.
C1_Witness ==
    /\ locked(pre)
    /\ LastKind = "Deposit"
    /\ LastId \notin Active(pre)
    /\ last.transaction_details.amount > 0

\* C2: a Withdrawal whose amount exceeds available() on an unlocked client is
\* rejected and changes nothing; a Withdrawal changes the client only when
\* available() >= amount, and then it is stored in active under its id.
C2_WithdrawalNeedsFunds ==
    LastKind = "Withdrawal" =>
        LET tx_amount == AmountToF64(last.transaction_details.amount)
        IN /\ (~locked(pre) /\ tx_amount > available(pre))
                => SameClient(client, pre)
           /\ ~SameClient(client, pre)
                => /\ available(pre) >= tx_amount
                   /\ LastId \in Active(client)
                   /\ client.transactions[LastId] = last.transaction_details

\* A withdrawal of more than a positive available balance was rejected.
C2_Witness ==
    /\ LastKind = "Withdrawal"
    /\ ~locked(pre)
    /\ available(pre) > 0
    /\ AmountToF64(last.transaction_details.amount) > available(pre)
    /\ LastId \notin Active(client)

\* C3: a Chargeback whose id is not a key of the held map does not set
\* locked and leaves both maps and the three balances unchanged.
C3_ChargebackNotHeld ==
    (LastKind = "Chargeback" /\ LastId \notin Held(pre))
        => SameClient(client, pre)

\* A chargeback was called for an active, undisputed id of an unlocked client.
C3_Witness ==
    /\ LastKind = "Chargeback"
    /\ LastId \in Active(pre)
    /\ LastId \notin Held(pre)
    /\ ~locked(pre)
    /\ ~locked(client)

\* C4: a Chargeback on an unlocked client whose id is a key of the held map
\* removes the id from held without adding it to active, leaves available()
\* unchanged, lowers hold() and total() by the signed amount of the removed
\* entry, and sets locked.
C4_ChargebackHeld ==
    (LastKind = "Chargeback" /\ ~locked(pre) /\ LastId \in Held(pre)) =>
        LET signed == SignedAmount(pre.disputed_transactions[LastId])
        IN /\ client.disputed_transactions
                = HashMapRemove(pre.disputed_transactions, LastId)
           /\ LastId \notin Held(client)
           /\ client.transactions = pre.transactions
           /\ available(client) = available(pre)
           /\ HoldAmount(client) = HoldAmount(pre) - signed
           /\ TotalAmount(client) = TotalAmount(pre) - signed
           /\ locked(client)

\* A disputed entry of non-zero amount was charged back while another entry
\* was active.
C4_Witness ==
    /\ LastKind = "Chargeback"
    /\ ~locked(pre)
    /\ LastId \in Held(pre)
    /\ SignedAmount(pre.disputed_transactions[LastId]) # 0
    /\ Active(pre) # {}
    /\ locked(client)

\* C5 as stated: a Dispute on an unlocked client whose id is a key of the
\* active map removes the id from active, inserts it into held and leaves
\* total() unchanged; available() falls and hold() rises by the signed
\* amount of the moved entry.
C5_DisputeMoves ==
    (LastKind = "Dispute" /\ ~locked(pre) /\ LastId \in Active(pre)) =>
        LET moved == pre.transactions[LastId]
        IN /\ LastId \notin Active(client)
           /\ LastId \in Held(client)
           /\ client.disputed_transactions[LastId] = moved
           /\ total(client) = total(pre)
           /\ AvailableAmount(client) = AvailableAmount(pre) - SignedAmount(moved)
           /\ HoldAmount(client) = HoldAmount(pre) + SignedAmount(moved)

\* C5 as amended: the same, for an id that is a key of the active map and not
\* at the same time a key of the held map.
C5_DisputeMovesNotHeld ==
    LastId \notin Held(pre) => C5_DisputeMoves

\* An active entry of non-zero amount was disputed while another entry was
\* already held.
C5_Witness ==
    /\ LastKind = "Dispute"
    /\ ~locked(pre)
    /\ LastId \in Active(pre)
    /\ LastId \notin Held(pre)
    /\ Held(pre) # {}
    /\ SignedAmount(pre.transactions[LastId]) # 0
    /\ LastId \in Held(client)

\* The step Dispute(id) followed at once by Resolve(id), the Dispute having
\* been made on an unlocked client.
DisputeThenResolve ==
    /\ LastKind = "Dispute"
    /\ ~locked(pre)
    /\ last'.transaction_details.kind = "Resolve"
    /\ last'.transaction_id = LastId

RestoredByResolve ==
    /\ available(client') = available(pre)
    /\ hold(client') = hold(pre)

\* C6 as stated: for every id, Dispute(id) then Resolve(id) leaves available()
\* and hold() equal to their values before the Dispute.
C6_RoundTrip ==
    [][DisputeThenResolve => RestoredByResolve]_vars

\* C6 as amended: the same, for every id that is not a key of the held map
\* before the Dispute.
C6_RoundTripNotHeld ==
    [][(DisputeThenResolve /\ LastId \notin Held(pre)) => RestoredByResolve]_vars

\* An active entry of non-zero amount has just been disputed (the Resolve of
\* the same id is the next call).
C6_Witness ==
    /\ LastKind = "Dispute"
    /\ ~locked(pre)
    /\ LastId \in Active(pre)
    /\ LastId \notin Held(pre)
    /\ SignedAmount(pre.transactions[LastId]) # 0
    /\ hold(client) # hold(pre)

\* C7: a Resolve whose id is not a key of the held map changes nothing, so a
\* second Resolve of the same id leaves the state the first one left.
C7_ResolveNotHeld ==
    (LastKind = "Resolve" /\ LastId \notin Held(pre)) =>
        /\ SameClient(client, pre)
        /\ SameClient(process_transaction(client, last), client)

\* A Resolve was called for an active, undisputed id of an unlocked client.
C7_Witness ==
    /\ LastKind = "Resolve"
    /\ ~locked(pre)
    /\ LastId \in Active(pre)
    /\ LastId \notin Held(pre)
    /\ Held(pre) # {}

\* C8 as stated: no transaction id is a key of both the active map and the
\* held map.
C8_Disjoint ==
    Active(client) \cap Held(client) = {}

\* C8 as amended: the same, after any sequence of calls in which no Deposit
\* or Withdrawal carries an id that an earlier Deposit or Withdrawal carried.
C8_DisjointUniqueIds ==
    ~reused => C8_Disjoint

\* With every id carried once, one entry is active and another is held.
C8_Witness ==
    /\ ~reused
    /\ used = TransactionIds
    /\ Active(client) # {}
    /\ Held(client) # {}

\* C9: after Deposit transactions only, total() == available(), hold() == 0,
\* the held map is empty and the client is not locked.
C9_DepositsOnly ==
    /\ total(client) = available(client)
    /\ hold(client) = 0
    /\ Held(client) = {}
    /\ ~locked(client)

\* Two deposits are stored and the balance is positive.
C9_Witness ==
    /\ LastKind = "Deposit"
    /\ Cardinality(Active(client)) >= 2
    /\ available(client) > 0

RECURSIVE SumOfSigned(_, _)
SumOfSigned(map, keys) ==
    IF keys = {} THEN 0
    ELSE LET k == CHOOSE x \in keys : TRUE
         IN SignedAmount(map[k]) + SumOfSigned(map, keys \ {k})

\* Deposited amounts minus withdrawn amounts of the entries of a map.
SignedSum(map) ==
    SumOfSigned(map, {k \in DOMAIN map : map[k].kind = "Deposit"})
        + SumOfSigned(map, {k \in DOMAIN map : map[k].kind = "Withdrawal"})

\* C10: available() is the signed sum over the active map, hold() the signed
\* sum over the held map, and total() == available() + hold() on the scale of
\* the stored integers.
C10_Balances ==
    /\ AvailableAmount(client) = SignedSum(client.transactions)
    /\ HoldAmount(client) = SignedSum(client.disputed_transactions)
    /\ TotalAmount(client) = AvailableAmount(client) + HoldAmount(client)

\* A deposit and a withdrawal are active, an entry is held, and neither
\* balance is zero.
C10_Witness ==
    /\ \E k \in Active(client) : client.transactions[k].kind = "Withdrawal"
    /\ \E k \in Active(client) : client.transactions[k].kind = "Deposit"
    /\ Held(client) # {}
    /\ available(client) # 0
    /\ hold(client) # 0

----------------------------------------------------------------------------
\* Where a transaction id stands in a client.
Membership(c, id) ==
    CASE id \in Active(c) /\ id \in Held(c) -> "both"
      [] id \in Active(c) /\ id \notin Held(c) -> "active"
      [] id \notin Active(c) /\ id \in Held(c) -> "held"
      [] OTHER -> "absent"

\* The call just made was accepted as a Deposit or a Withdrawal.
StoredByLast ==
    \/ LastKind = "Deposit"
    \/ /\ LastKind = "Withdrawal"
       /\ available(pre) >= AmountToF64(last.transaction_details.amount)

\* The moves of an id that the latest call may have made.
AllowedMove(id) ==
    LET from == Membership(pre, id)
        to == Membership(client, id)
    IN \/ from = to
       \/ /\ id = LastId
          /\ \/ from = "absent" /\ to = "active" /\ StoredByLast
             \/ from = "active" /\ to = "held" /\ LastKind = "Dispute"
             \/ from = "held" /\ to = "active" /\ LastKind = "Resolve"
             \/ /\ from = "held" /\ to = "absent" /\ LastKind = "Chargeback"
                /\ ~locked(pre) /\ locked(client)

\* C17 as stated: in every call the membership of each id changes only along
\* absent -> active (Deposit or accepted Withdrawal), active -> held
\* (Dispute), held -> active (Resolve) or held -> absent (Chargeback, locking
\* in the same step); in particular never active -> absent, never into held
\* except from active, and a rejected Withdrawal leaves its id absent.
C17_StateMachine ==
    \A id \in TransactionIds : AllowedMove(id)

\* C17 as amended: the same, in any sequence of calls in which no Deposit or
\* Withdrawal carries an id that an earlier Deposit or Withdrawal carried.
C17_StateMachineUniqueIds ==
    ~reused => C17_StateMachine

\* An id that was stored and disputed has just been charged back, while
\* another id stayed where it was.
C17_Witness ==
    /\ ~reused
    /\ LastKind = "Chargeback"
    /\ Membership(pre, LastId) = "held"
    /\ Membership(client, LastId) = "absent"
    /\ \E id \in TransactionIds : Membership(client, id) = "active"

\* An unlocked client in which id is an active Withdrawal of amount > 0.
ActiveWithdrawal(c, id) ==
    /\ ~locked(c)
    /\ id \in Active(c)
    /\ c.transactions[id].kind = "Withdrawal"
    /\ c.transactions[id].amount > 0

\* The Dispute just made raised available() by the amount of the withdrawal
\* it moved, lowered hold() by it and left total() as it was.
DisputedWithdrawalEffect ==
    LET a == pre.transactions[LastId].amount
    IN /\ AvailableAmount(client) = AvailableAmount(pre) + a
       /\ HoldAmount(client) = HoldAmount(pre) - a
       /\ total(client) = total(pre)

\* The step Chargeback(id) raises total() by the amount of the withdrawal
\* and locks the client.
ChargebackOfWithdrawalEffect ==
    LET a == pre.transactions[LastId].amount
    IN /\ TotalAmount(client') = TotalAmount(client) + a
       /\ locked(client')

ChargebackFollows ==
    /\ last'.transaction_details.kind = "Chargeback"
    /\ last'.transaction_id = LastId

\* C19 as stated: Dispute(id) of an active Withdrawal of amount a > 0 on an
\* unlocked client raises available() by a, lowers hold() by a and leaves
\* total() unchanged; a Chargeback(id) that follows raises total() by a and
\* locks the account.
C19_DisputedWithdrawal ==
    [][(LastKind = "Dispute" /\ ActiveWithdrawal(pre, LastId)) =>
            /\ DisputedWithdrawalEffect
            /\ ChargebackFollows => ChargebackOfWithdrawalEffect]_vars

\* C19 as amended: the same, for an id that is not at the same time a key of
\* the held map.
C19_DisputedWithdrawalNotHeld ==
    [][(LastKind = "Dispute" /\ ActiveWithdrawal(pre, LastId)
            /\ LastId \notin Held(pre)) =>
            /\ DisputedWithdrawalEffect
            /\ ChargebackFollows => ChargebackOfWithdrawalEffect]_vars

\* A disputed withdrawal of positive amount has just been charged back.
C19_Witness ==
    /\ LastKind = "Chargeback"
    /\ ~locked(pre)
    /\ locked(client)
    /\ LastId \in Held(pre)
    /\ LastId \notin Active(pre)
    /\ pre.disputed_transactions[LastId].kind = "Withdrawal"
    /\ pre.disputed_transactions[LastId].amount > 0

----------------------------------------------------------------------------
\* C20: after Deposits and Withdrawals only, every amount positive and no id
\* used twice, available() >= 0 and available() is the sum of the deposited
\* amounts minus the sum of the amounts of the accepted withdrawals.
C20_PlainBalance ==
    /\ available(client) >= 0
    /\ available(client) = AmountToF64(ledger.deposited - ledger.withdrawn)
    /\ AvailableAmount(client) = ledger.deposited - ledger.withdrawn

\* A withdrawal was accepted, and later one was rejected for lack of funds.
C20_Witness ==
    /\ ledger.withdrawn > 0
    /\ ledger.deposited > ledger.withdrawn
    /\ LastKind = "Withdrawal"
    /\ LastId \notin Active(client)
    /\ client = pre

----------------------------------------------------------------------------
\* str is keyword (all lower case letters) written in any mix of cases.
EqualsIgnoringCase(str, keyword) ==
    /\ Len(str) = Len(keyword)
    /\ \A i \in 1..Len(str) : str[i] = keyword[i] \/ str[i] = keyword[i] - 32

\* The variant a (type, amount) pair stands for, "Err" when it stands for none.
VariantOf(str, amount) ==
    CASE EqualsIgnoringCase(str, STR_DEPOSIT) /\ IsSome(amount) -> "Deposit"
      [] EqualsIgnoringCase(str, STR_WITHDRAWAL) /\ IsSome(amount) -> "Withdrawal"
      [] EqualsIgnoringCase(str, STR_DISPUTE) /\ ~IsSome(amount) -> "Dispute"
      [] EqualsIgnoringCase(str, STR_RESOLVE) /\ ~IsSome(amount) -> "Resolve"
      [] EqualsIgnoringCase(str, STR_CHARGEBACK) /\ ~IsSome(amount) -> "Chargeback"
      [] OTHER -> "Err"

Converted == conv.pc \in {"parsed", "read_back"}

\* C15: try_from succeeds exactly when the type, compared without regard to
\* case, is deposit or withdrawal and an amount is present, or is dispute,
\* resolve or chargeback and no amount is present, and yields that variant;
\* every other pair yields a parse error.
C15_TryFrom ==
    Converted =>
        LET want == VariantOf(conv.transaction_type, conv.given)
        IN IF want = "Err"
           THEN conv.parsed.tag = "Err"
           ELSE /\ conv.parsed.tag = "Ok"
                /\ conv.parsed.get.kind = want
                /\ IsSome(conv.given) =>
                     conv.parsed.get.amount = F64ToAmount(Unwrap(conv.given))

\* "WITHDRAWAL" with an amount was parsed as a Withdrawal (and "DISPUTE" with
\* an amount is among the inputs that fail).
C15_Witness ==
    /\ conv.pc = "parsed"
    /\ conv.transaction_type = ToAsciiUppercase(STR_WITHDRAWAL)
    /\ conv.transaction_type # STR_WITHDRAWAL
    /\ IsSome(conv.given)
    /\ conv.parsed.tag = "Ok"
    /\ conv.parsed.get.kind = "Withdrawal"

Abs(n) == IF n >= 0 THEN n ELSE 0 - n

\* n is the integer nearest to value * AMOUNT_STORAGE_PRECISION, the one
\* farther from zero when two are equally near.
NearestTiesAway(value, n) ==
    LET x == value * AMOUNT_STORAGE_PRECISION
        d == Abs(x - n * F64_RESOLUTION)
    IN /\ 2 * d <= F64_RESOLUTION
       /\ 2 * d = F64_RESOLUTION => Abs(n * F64_RESOLUTION) > Abs(x)

----------------------------------------------------------------------------
(* Vocabulary of the properties of a batch *)

RECURSIVE ReplayFrom(_, _, _)
ReplayFrom(bank, transactions, i) ==
    IF i > Len(transactions) THEN bank
    ELSE ReplayFrom(Bank_process_transaction(bank, transactions[i]),
                    transactions, i + 1)

\* The map of a fresh Bank handed `transactions` one after the other.
Replay(transactions) == ReplayFrom(HashMapEmpty, transactions, 1)

\* The map before the latest process_transaction call.
BeforeLast == Replay(SubSeq(handed, 1, Len(handed) - 1))

LastHanded == handed[Len(handed)]

\* The account of id k: an account the map does not hold yet is unlocked
\* with empty maps.
Account(bank, k) == IF k \in DOMAIN bank THEN bank[k] ELSE Client_new(k)

\* An item of the file that is no transaction: an unparseable record, an
\* unknown kind, a missing or an extra amount.
Malformed(item) ==
    item[1] # "record" \/ VariantOf(item[2], item[5]) = "Err"

WellFormedSoFar == \A i \in 1..Len(file) : ~Malformed(file[i])

ReturnedFileTransaction ==
    result.tag = "Err" /\ result.get[1] = "FileTransaction"

\* C11: when process_file returns an error, no Client has been created or
\* mutated by any row of the batch, the rows before the malformed one
\* included: nothing of the batch has reached process_transaction.
C11_NothingReachesCore ==
    result.tag = "Err" => (clients = HashMapEmpty /\ handed = << >>)

\* C12: at the first malformed row process_file returns FileTransaction with
\* the index of that row, every row before it and none after it has been
\* handed to process_transaction, and main exits with code 1 and nothing
\* written to stdout.
C12_StopsAtFirstMalformed ==
    /\ ReturnedFileTransaction =>
          /\ Len(file) >= 1
          /\ result.get[2] = Len(file) - 1
          /\ Malformed(file[Len(file)])
          /\ \A i \in 1..(Len(file) - 1) : ~Malformed(file[i])
          /\ Len(handed) = result.get[2]
          /\ stdout = << >>
          /\ pc = "exited" => exit_code = 1
    /\ ~WellFormedSoFar => ReturnedFileTransaction

\* The third row was the first malformed one and main has exited.
C12_Witness ==
    /\ pc = "exited"
    /\ exit_code = 1
    /\ ReturnedFileTransaction
    /\ result.get[2] = 2
    /\ Len(handed) = 2
    /\ clients # HashMapEmpty

\* The transaction is one the account c drops: c is locked, a Withdrawal
\* exceeds the available funds, a Dispute names an id that is not active, a
\* Resolve or a Chargeback an id that is not held.
Rejected(c, t) ==
    LET kind == t.transaction_details.kind
    IN \/ locked(c)
       \/ kind = "Withdrawal"
            /\ AmountToF64(t.transaction_details.amount) > available(c)
       \/ kind = "Dispute" /\ t.transaction_id \notin Active(c)
       \/ kind \in {"Resolve", "Chargeback"} /\ t.transaction_id \notin Held(c)

RejectedAt(i) ==
    Rejected(Account(Replay(SubSeq(handed, 1, i - 1)), handed[i].client),
             handed[i])

Without(seq, i) == SubSeq(seq, 1, i - 1) \o SubSeq(seq, i + 1, Len(seq))

\* t is the Transaction the record `item` stands for.
TransactionOf(t, item) ==
    /\ t.client = item[3]
    /\ t.transaction_id = item[4]
    /\ t.transaction_details.kind = VariantOf(item[2], item[5])
    /\ IsSome(item[5]) =>
          t.transaction_details.amount = F64ToAmount(Unwrap(item[5]))

SameAccounts(bank, other) ==
    \A k \in DOMAIN bank \cup DOMAIN other :
        Account(bank, k) = Account(other, k)

\* C13: a batch of well-formed rows is handed row by row, in file order, to
\* process_transaction and process_file returns Ok; a rejected entry leaves
\* the maps and the lock of every account as they were, and the batch ends
\* in the state it would have ended in without that entry.
C13_SemanticErrorsAreLocal ==
    /\ WellFormedSoFar =>
          /\ Len(handed) = Len(file)
          /\ \A i \in 1..Len(file) : TransactionOf(handed[i], file[i])
          /\ ~ReturnedFileTransaction
          /\ (pc \in {"returned", "exited"} /\ file # << >>) =>
                (result.tag = "Ok" /\ exit_code # 1)
    /\ (pc = "records" /\ handed # << >>) =>
          \A i \in 1..Len(handed) :
              RejectedAt(i) =>
                  /\ SameAccounts(Replay(SubSeq(handed, 1, i)),
                                  Replay(SubSeq(handed, 1, i - 1)))
                  /\ SameAccounts(clients, Replay(Without(handed, i)))

\* A batch that returned Ok although one of its entries was rejected, with
\* an accepted entry after the rejected one.
C13_Witness ==
    /\ pc = "exited"
    /\ result.tag = "Ok"
    /\ \E i \in 1..(Len(handed) - 1) :
          /\ RejectedAt(i)
          /\ ~RejectedAt(i + 1)
          /\ Replay(SubSeq(handed, 1, i + 1)) # Replay(SubSeq(handed, 1, i))

SeenClients == {handed[i].client : i \in 1..Len(handed)}

\* C14: the Bank holds one Client for each client id a processed
\* transaction carried, accepted or not, under that id as its key; a call
\* with an id seen for the first time works on a new, unlocked and empty
\* Client, and a call with any other id on the Client the map already holds;
\* no Client leaves the map.
C14_OneClientPerId ==
    /\ [](/\ DOMAIN clients = SeenClients
          /\ \A k \in DOMAIN clients : Client_id(clients[k]) = k)
    /\ [][handed' # handed =>
            LET t == handed'[Len(handed')]
            IN /\ DOMAIN clients' = DOMAIN clients \cup {t.client}
               /\ clients'[t.client] =
                     process_transaction(Account(clients, t.client), t)
               /\ t.client \notin DOMAIN clients =>
                     /\ ~locked(Account(clients, t.client))
                     /\ Active(Account(clients, t.client)) = {}
                     /\ Held(Account(clients, t.client)) = {}]_vars

\* Two clients: one whose only transaction was rejected, one that has
\* processed several transactions.
C14_Witness ==
    /\ DOMAIN clients = {1, 2}
    /\ clients[2] = Client_new(2)
    /\ Len(handed) = 4
    /\ handed[1].client = 2
    /\ Active(clients[1]) # {}
    /\ Held(clients[1]) # {}

RowDetails ==
    {Deposit_(F64ToAmount(Unwrap(a))) : a \in RowAmounts \ {None_}}
        \cup {Withdrawal_(F64ToAmount(Unwrap(a))) : a \in RowAmounts \ {None_}}
        \cup {Dispute_, Resolve_, Chargeback_}

\* The transactions of client c that the rows of a file stand for.
TransactionsOf(c) == {Transaction(d, c, id) : d \in RowDetails, id \in RowIds}

Injective(p) == \A i, j \in DOMAIN p : p[i] = p[j] => i = j

\* The orders of n rows.
Orders == [n \in 0..MaxRows |-> {p \in [1..n -> 1..n] : Injective(p)}]

\* The orders that keep the transactions of every client in the order seq
\* has them in.
KeepsClientOrder(p, seq) ==
    \A i, j \in DOMAIN p :
        (i < j /\ seq[p[i]].client = seq[p[j]].client) => p[i] < p[j]

Reordered(p, seq) == [i \in DOMAIN p |-> seq[p[i]]]

SameStatus(bank, other) ==
    /\ DOMAIN bank = DOMAIN other
    /\ \A k \in DOMAIN bank : StatusLine(bank[k]) = StatusLine(other[k])

\* C18: a process_transaction call for client c changes the Client of no
\* other id; from every state in which process_file can hand over another
\* row, two transactions of different clients leave the same map in either
\* order; and the batch handed so far,
\* reordered in any way that keeps every client's own transactions in
\* order, ends in the same available, held, total and locked values.
C18_AccountsIndependent ==
    /\ []((pc = "records" /\ Len(file) < MaxRows) =>
            \A c1, c2 \in ClientIds : c1 < c2 =>
                \A t1 \in TransactionsOf(c1) :
                    LET first == Bank_process_transaction(clients, t1)
                    IN \A t2 \in TransactionsOf(c2) :
                          Bank_process_transaction(first, t2) =
                          Bank_process_transaction(
                              Bank_process_transaction(clients, t2), t1))
    /\ []((pc = "returned" /\ result.tag = "Ok") =>
            \A p \in Orders[Len(handed)] :
                KeepsClientOrder(p, handed) =>
                    SameStatus(Replay(Reordered(p, handed)), clients))
    /\ [][\A k \in DOMAIN clients :
            /\ k \in DOMAIN clients'
            /\ clients'[k] # clients[k] =>
                  (handed' # handed /\ handed'[Len(handed')].client = k)]_vars

\* A batch of four that alternates between two clients, both changed by it,
\* one of them locked.
C18_Witness ==
    /\ pc = "returned"
    /\ result.tag = "Ok"
    /\ Len(handed) = 4
    /\ handed[1].client = 1 /\ handed[2].client = 2
    /\ handed[3].client = 1 /\ handed[4].client = 1
    /\ locked(clients[1])
    /\ Active(clients[2]) # {}

====
